---- MODULE Spec2Model ----
(***************************************************************************)
(* A model of the MD2 digest engine of src/src/lib.rs: the engine's four   *)
(* fields, the compression step _update, the buffering update, finalize    *)
(* and the hex Display, driven by a caller that streams one of the RFC     *)
(* 1319 test messages into the engine in chunks.                           *)
(*                                                                         *)
(* Rust arrays and slices are sequences; index i of the source is index    *)
(* i + 1 here (At, Slice).  A panic (a failed slice bound, an arithmetic   *)
(* underflow, the length assertion of _update) clears the field ok and     *)
(* stops the run.                                                          *)
(***************************************************************************)
EXTENDS Integers, Sequences, FiniteSets, TLC

VARIABLES md, M, src, op, ret

vars == <<md, M, src, op, ret>>

\* ---------------------------------------------------------------- bounds

\* The longest slice the caller hands to one update call (with_input is
\* given a whole message).
MaxChunk == 33

\* ------------------------------------------------------------- constants

\* The block size: the length of state, checksum and buffer, and of the
\* slice _update accepts.
BLOCK == 16

\* The number of rounds of the compression step.
ROUNDS == 18

\* The substitution table with its last entry mistyped as a copy of the one
\* before it.
S_dup ==
    <<41, 46, 67, 201, 162, 216, 124, 1, 61, 54, 84, 161, 236, 240, 6, 19, 98, 167, 5, 243, 192,
    199, 115, 140, 152, 147, 43, 217, 188, 76, 130, 202, 30, 155, 87, 60, 253, 212, 224, 22,
    103, 66, 111, 24, 138, 23, 229, 18, 190, 78, 196, 214, 218, 158, 222, 73, 160, 251, 245,
    142, 187, 47, 238, 122, 169, 104, 121, 145, 21, 178, 7, 63, 148, 194, 16, 137, 11, 34, 95,
    33, 128, 127, 93, 154, 90, 144, 50, 39, 53, 62, 204, 231, 191, 247, 151, 3, 255, 25, 48,
    179, 72, 165, 181, 209, 215, 94, 146, 42, 172, 86, 170, 198, 79, 184, 56, 210, 150, 164,
    125, 182, 118, 252, 107, 226, 156, 116, 4, 241, 69, 157, 112, 89, 100, 113, 135, 32, 134,
    91, 207, 101, 230, 45, 168, 2, 27, 96, 37, 173, 174, 176, 185, 246, 28, 70, 97, 105, 52, 64,
    126, 15, 85, 71, 163, 35, 221, 81, 175, 58, 195, 92, 249, 206, 186, 197, 234, 38, 44, 83,
    13, 110, 133, 40, 132, 9, 211, 223, 205, 244, 65, 129, 77, 82, 106, 220, 55, 200, 108, 193,
    171, 250, 36, 225, 123, 8, 12, 189, 177, 74, 120, 136, 149, 139, 227, 99, 232, 109, 233,
    203, 213, 254, 59, 0, 29, 57, 242, 239, 183, 14, 102, 88, 208, 228, 166, 119, 114, 248, 235,
    117, 75, 10, 49, 68, 80, 180, 143, 237, 31, 26, 219, 153, 141, 51, 159, 17, 131, 131>>

\* The substitution table of MD2.
S ==
    <<41, 46, 67, 201, 162, 216, 124, 1, 61, 54, 84, 161, 236, 240, 6, 19, 98, 167, 5, 243, 192,
    199, 115, 140, 152, 147, 43, 217, 188, 76, 130, 202, 30, 155, 87, 60, 253, 212, 224, 22,
    103, 66, 111, 24, 138, 23, 229, 18, 190, 78, 196, 214, 218, 158, 222, 73, 160, 251, 245,
    142, 187, 47, 238, 122, 169, 104, 121, 145, 21, 178, 7, 63, 148, 194, 16, 137, 11, 34, 95,
    33, 128, 127, 93, 154, 90, 144, 50, 39, 53, 62, 204, 231, 191, 247, 151, 3, 255, 25, 48,
    179, 72, 165, 181, 209, 215, 94, 146, 42, 172, 86, 170, 198, 79, 184, 56, 210, 150, 164,
    125, 182, 118, 252, 107, 226, 156, 116, 4, 241, 69, 157, 112, 89, 100, 113, 135, 32, 134,
    91, 207, 101, 230, 45, 168, 2, 27, 96, 37, 173, 174, 176, 185, 246, 28, 70, 97, 105, 52, 64,
    126, 15, 85, 71, 163, 35, 221, 81, 175, 58, 195, 92, 249, 206, 186, 197, 234, 38, 44, 83,
    13, 110, 133, 40, 132, 9, 211, 223, 205, 244, 65, 129, 77, 82, 106, 220, 55, 200, 108, 193,
    171, 250, 36, 225, 123, 8, 12, 189, 177, 74, 120, 136, 149, 139, 227, 99, 232, 109, 233,
    203, 213, 254, 59, 0, 29, 57, 242, 239, 183, 14, 102, 88, 208, 228, 166, 119, 114, 248, 235,
    117, 75, 10, 49, 68, 80, 180, 143, 237, 31, 26, 219, 153, 141, 51, 159, 17, 131, 20>>

\* ---------------------------------------------------------------- bytes

Byte == 0..255

Min(a, b) == IF a < b THEN a ELSE b

\* s[i] of the source (indices from 0).
At(s, i) == s[i + 1]

\* s[a..b] of the source: elements a, ..., b - 1.
Slice(s, a, b) == SubSeq(s, a + 1, b)

\* [v; n]
Repeat(v, n) == [i \in 1..n |-> v]

RECURSIVE XorBits(_, _)
XorBits(a, b) ==
    IF a = 0 THEN b
    ELSE IF b = 0 THEN a
    ELSE ((a + b) % 2) + 2 * XorBits(a \div 2, b \div 2)

\* a ^ b for all pairs of bytes, bit by bit.
XorTable == [a \in Byte |-> [b \in Byte |-> XorBits(a, b)]]

\* a ^ b on u8.
Xor(a, b) == XorTable[a][b]

\* --------------------------------------------------------------- engine

Zero16 == Repeat(0, BLOCK)

\* MD2::new().  calls and ok are history fields: the slices this instance
\* has passed to _update, and whether it has run without a panic.
new ==
    [state |-> Zero16, checksum |-> Zero16, buffer |-> Zero16, count |-> 0,
     calls |-> <<>>, ok |-> TRUE]

\* A panic of the instance.
Panic(self) == [self EXCEPT !.ok = FALSE]

\* for k in 0..48 { x[k] ^= S[t]; t = x[k] as usize }, x being 48 bytes long.
RECURSIVE RoundLoop(_, _, _)
RoundLoop(x, t, k) ==
    IF k = Len(x) THEN [x |-> x, t |-> t]
    ELSE LET v == Xor(x[k + 1], S[t + 1])
         IN  RoundLoop([x EXCEPT ![k + 1] = v], v, k + 1)

\* for j in 0..18 { ...; t = (t + j) % 256 }
RECURSIVE Rounds(_, _, _)
Rounds(x, t, j) ==
    IF j = ROUNDS THEN x
    ELSE LET r == RoundLoop(x, t, 0)
         IN  Rounds(r.x, (r.t + j) % 256, j + 1)

\* The new state: x = state ++ input ++ (state ^ input), 18 rounds, x[..16].
Compress(state, input) ==
    LET x == state \o input \o [j \in 1..BLOCK |-> Xor(state[j], input[j])]
    IN  Slice(Rounds(x, 0, 0), 0, BLOCK)

\* for j in 0..16 { checksum[j] ^= S[input[j] ^ l]; l = checksum[j] }
RECURSIVE ChecksumLoop(_, _, _, _)
ChecksumLoop(checksum, input, l, j) ==
    IF j = Len(checksum) THEN checksum
    ELSE LET v == Xor(At(checksum, j), At(S, Xor(At(input, j), l)))
         IN  ChecksumLoop([checksum EXCEPT ![j + 1] = v], input, v, j + 1)

\* The checksum loop as RFC 1319's pseudocode words it: C[j] is assigned,
\* not xor-ed.
RECURSIVE ChecksumLoop_assign(_, _, _, _)
ChecksumLoop_assign(checksum, input, l, j) ==
    IF j = Len(checksum) THEN checksum
    ELSE LET v == At(S, Xor(At(input, j), l))
         IN  ChecksumLoop_assign([checksum EXCEPT ![j + 1] = v], input, v, j + 1)

\* The checksum update with the RFC's assignment.
Checksum_rfc(checksum, input) ==
    ChecksumLoop_assign(checksum, input, At(checksum, BLOCK - 1), 0)

\* The new checksum: l starts as checksum[15].
Checksum(checksum, input) ==
    ChecksumLoop(checksum, input, At(checksum, BLOCK - 1), 0)

\* MD2::_update.  A slice that is not 16 bytes long fails the debug
\* assertion, and in a release build the copy_from_slice after it.
_update(self, input) ==
    IF ~self.ok THEN self
    ELSE IF Len(input) # BLOCK
         THEN Panic([self EXCEPT !.calls = Append(@, input)])
    ELSE [self EXCEPT !.state = Compress(self.state, input),
                      !.checksum = Checksum(self.checksum, input),
                      !.calls = Append(@, input)]

\* input.len().min(16 - self.count)
Available(self, input) == Min(Len(input), BLOCK - self.count)

\* The head of update copying the input to the start of buffer instead of
\* to offset count.
UpdateFill_front(self, input) ==
    IF self.count > BLOCK THEN Panic(self)
    ELSE LET available == Available(self, input)
         IN  IF self.count + available > BLOCK \/ available > Len(input)
             THEN Panic(self)
             ELSE [self EXCEPT
                     !.buffer = Slice(input, 0, available)
                                \o Slice(@, available, BLOCK),
                     !.count = @ + available]

\* The head of update: the leading bytes of input are copied into the
\* free part of buffer and counted.
UpdateFill(self, input) ==
    IF self.count > BLOCK THEN Panic(self)
    ELSE LET available == Available(self, input)
         IN  IF self.count + available > BLOCK \/ available > Len(input)
             THEN Panic(self)
             ELSE [self EXCEPT
                     !.buffer = Slice(@, 0, self.count)
                                \o Slice(input, 0, available)
                                \o Slice(@, self.count + available, BLOCK),
                     !.count = @ + available]

\* The loop of update with its test written remaining > 0.
RECURSIVE UpdateLoop_nonzero(_, _, _, _)
UpdateLoop_nonzero(self, input, offset, remaining) ==
    IF self.ok /\ remaining > 0
    THEN IF offset + BLOCK > Len(input)
         THEN [self |-> Panic(self), offset |-> offset, remaining |-> remaining]
         ELSE UpdateLoop_nonzero(_update(self, Slice(input, offset, offset + BLOCK)),
                                 input, offset + BLOCK, remaining - BLOCK)
    ELSE [self |-> self, offset |-> offset, remaining |-> remaining]

\* The loop of update with its test written remaining > 16.
RECURSIVE UpdateLoop_gt(_, _, _, _)
UpdateLoop_gt(self, input, offset, remaining) ==
    IF self.ok /\ remaining > BLOCK
    THEN IF offset + BLOCK > Len(input)
         THEN [self |-> Panic(self), offset |-> offset, remaining |-> remaining]
         ELSE UpdateLoop_gt(_update(self, Slice(input, offset, offset + BLOCK)),
                            input, offset + BLOCK, remaining - BLOCK)
    ELSE [self |-> self, offset |-> offset, remaining |-> remaining]

\* while remaining >= 16 { self._update(&input[offset..offset+16]); ... }
RECURSIVE UpdateLoop(_, _, _, _)
UpdateLoop(self, input, offset, remaining) ==
    IF self.ok /\ remaining >= BLOCK
    THEN IF offset + BLOCK > Len(input)
         THEN [self |-> Panic(self), offset |-> offset, remaining |-> remaining]
         ELSE UpdateLoop(_update(self, Slice(input, offset, offset + BLOCK)),
                         input, offset + BLOCK, remaining - BLOCK)
    ELSE [self |-> self, offset |-> offset, remaining |-> remaining]

\* The tail of update without the assignment self.count = remaining.
UpdateTail_keep_count(self, input, available) ==
    LET r == UpdateLoop(self, input, available, Len(input) - available)
    IN  IF ~r.self.ok THEN r.self
        ELSE IF r.remaining > BLOCK \/ r.offset > Len(input)
                \/ Len(input) - r.offset # r.remaining
             THEN Panic(r.self)
             ELSE [r.self EXCEPT
                     !.buffer = Slice(input, r.offset, Len(input))
                                \o Slice(@, r.remaining, BLOCK)]

\* The tail of update storing the first remaining bytes of input instead
\* of the last.
UpdateTail_head(self, input, available) ==
    LET r == UpdateLoop(self, input, available, Len(input) - available)
    IN  IF ~r.self.ok THEN r.self
        ELSE IF r.remaining > BLOCK \/ r.remaining > Len(input)
             THEN Panic([r.self EXCEPT !.count = r.remaining])
             ELSE [r.self EXCEPT
                     !.count = r.remaining,
                     !.buffer = Slice(input, 0, r.remaining)
                                \o Slice(@, r.remaining, BLOCK)]

\* The tail of update, after the buffer was filled and compressed: the
\* whole blocks left in input are compressed in place and the remainder is
\* stored at the start of buffer.
UpdateTail(self, input, available) ==
    LET r == UpdateLoop(self, input, available, Len(input) - available)
    IN  IF ~r.self.ok THEN r.self
        ELSE IF r.remaining > BLOCK \/ r.offset > Len(input)
                \/ Len(input) - r.offset # r.remaining
             THEN Panic([r.self EXCEPT !.count = r.remaining])
             ELSE [r.self EXCEPT
                     !.count = r.remaining,
                     !.buffer = Slice(input, r.offset, Len(input))
                                \o Slice(@, r.remaining, BLOCK)]

\* update without the early return of its else branch.
update_no_return(self, input) ==
    LET a == UpdateFill(self, input)
    IN  IF ~a.ok THEN a
        ELSE IF a.count = BLOCK
             THEN UpdateTail(_update(a, a.buffer), input, Available(self, input))
             ELSE UpdateTail(a, input, Available(self, input))

\* MD2::update
update(self, input) ==
    LET a == UpdateFill(self, input)
    IN  IF ~a.ok THEN a
        ELSE IF a.count = BLOCK
             THEN UpdateTail(_update(a, a.buffer), input, Available(self, input))
             ELSE a

\* MD2::with_input
with_input(input) == update(new, input)

\* finalize with the padding bytes set to count instead of padding_len.
Finalized_pad_count(self) ==
    IF self.count > BLOCK THEN Panic(self)
    ELSE LET padded == [self EXCEPT
                          !.buffer = Slice(@, 0, self.count)
                                     \o Repeat(self.count, BLOCK - self.count)]
             a == _update(padded, padded.buffer)
         IN  _update(a, a.checksum)

\* The instance at the end of MD2::finalize: padded, compressed, and
\* compressed once more over its checksum.
Finalized(self) ==
    IF self.count > BLOCK THEN Panic(self)
    ELSE LET padding_len == BLOCK - self.count
             padded == [self EXCEPT
                          !.buffer = Slice(@, 0, self.count)
                                     \o Repeat(padding_len, BLOCK - self.count)]
             a == _update(padded, padded.buffer)
         IN  _update(a, a.checksum)

\* MD2::finalize: the digest.
finalize(self) == Finalized(self).state

\* ------------------------------------------------------------ formatting

HexDigits ==
    <<"0", "1", "2", "3", "4", "5", "6", "7", "8", "9", "a", "b", "c", "d", "e", "f">>

\* {:x}: the digits of n in base 16, lowercase, without leading zeros.
RECURSIVE LowerHex(_)
LowerHex(n) ==
    IF n < 16 THEN <<At(HexDigits, n)>>
    ELSE LowerHex(n \div 16) \o <<At(HexDigits, n % 16)>>

\* {:02x}: LowerHex filled with zeros on the left to a width of 2.
Fmt02x(b) ==
    LET d == LowerHex(b)
    IN  IF Len(d) < 2 THEN Repeat("0", 2 - Len(d)) \o d ELSE d

\* for b in result { write!("{:02x}", b) }
RECURSIVE WriteHex(_)
WriteHex(result) ==
    IF result = <<>> THEN <<>>
    ELSE Fmt02x(Head(result)) \o WriteHex(Tail(result))

\* Display::fmt finalizing the live instance instead of a copy.
fmt_in_place(self) ==
    LET r == Finalized(self)
    IN  [self |-> r, out |-> WriteHex(r.state)]

\* Display::fmt (and Debug::fmt, which calls it): the instance after the
\* call and the string written.  finalize runs on a copy of *self.
fmt(self) ==
    LET r == Finalized(self)
    IN  [self |-> [self EXCEPT !.ok = r.ok], out |-> WriteHex(r.state)]

\* ------------------------------------------------------------ the caller

\* The messages of test::basic.
Messages == <<
    <<>>,
    <<97>>,
    <<97, 98, 99>>,
    <<109, 101, 115, 115, 97, 103, 101, 32, 100, 105, 103, 101, 115, 116>>,
    <<
      97, 98, 99, 100, 101, 102, 103, 104, 105, 106, 107, 108, 109, 110, 111, 112, 113, 114, 115,
      116, 117, 118, 119, 120, 121, 122>>,
    <<
      65, 66, 67, 68, 69, 70, 71, 72, 73, 74, 75, 76, 77, 78, 79, 80, 81, 82, 83, 84, 85, 86, 87,
      88, 89, 90, 97, 98, 99, 100, 101, 102, 103, 104, 105, 106, 107, 108, 109, 110, 111, 112,
      113, 114, 115, 116, 117, 118, 119, 120, 121, 122, 48, 49, 50, 51, 52, 53, 54, 55, 56, 57>>,
    <<
      49, 50, 51, 52, 53, 54, 55, 56, 57, 48, 49, 50, 51, 52, 53, 54, 55, 56, 57, 48, 49, 50, 51,
      52, 53, 54, 55, 56, 57, 48, 49, 50, 51, 52, 53, 54, 55, 56, 57, 48, 49, 50, 51, 52, 53, 54,
      55, 56, 57, 48, 49, 50, 51, 52, 53, 54, 55, 56, 57, 48, 49, 50, 51, 52, 53, 54, 55, 56, 57,
      48, 49, 50, 51, 52, 53, 54, 55, 56, 57, 48>> >>

\* The digests test::basic expects, one per message.
Expected == <<
    <<
      "8", "3", "5", "0", "e", "5", "a", "3", "e", "2", "4", "c", "1", "5", "3", "d", "f", "2",
      "2", "7", "5", "c", "9", "f", "8", "0", "6", "9", "2", "7", "7", "3">>,
    <<
      "3", "2", "e", "c", "0", "1", "e", "c", "4", "a", "6", "d", "a", "c", "7", "2", "c", "0",
      "a", "b", "9", "6", "f", "b", "3", "4", "c", "0", "b", "5", "d", "1">>,
    <<
      "d", "a", "8", "5", "3", "b", "0", "d", "3", "f", "8", "8", "d", "9", "9", "b", "3", "0",
      "2", "8", "3", "a", "6", "9", "e", "6", "d", "e", "d", "6", "b", "b">>,
    <<
      "a", "b", "4", "f", "4", "9", "6", "b", "f", "b", "2", "a", "5", "3", "0", "b", "2", "1",
      "9", "f", "f", "3", "3", "0", "3", "1", "f", "e", "0", "6", "b", "0">>,
    <<
      "4", "e", "8", "d", "d", "f", "f", "3", "6", "5", "0", "2", "9", "2", "a", "b", "5", "a",
      "4", "1", "0", "8", "c", "3", "a", "a", "4", "7", "9", "4", "0", "b">>,
    <<
      "d", "a", "3", "3", "d", "e", "f", "2", "a", "4", "2", "d", "f", "1", "3", "9", "7", "5",
      "3", "5", "2", "8", "4", "6", "c", "3", "0", "3", "3", "8", "c", "d">>,
    <<
      "d", "5", "9", "7", "6", "f", "7", "9", "d", "8", "3", "d", "3", "a", "0", "d", "c", "9",
      "8", "0", "6", "c", "3", "c", "6", "6", "f", "3", "e", "f", "d", "8">> >>

\* The lengths of the slices the caller hands to update: the multiples of
\* the block size, one byte less, and one and two bytes more.
ChunkLens == {n \in 0..MaxChunk : n % BLOCK \in {0, 1, 2, BLOCK - 1}}

Live == op # "finalize" /\ md.ok

Init ==
    /\ md = new
    /\ M = <<>>
    /\ src \in 1..Len(Messages)
    /\ op = "new"
    /\ ret = <<>>

\* let md = MD2::with_input(message), in place of MD2::new().
WithInput ==
    /\ op = "new"
    /\ md' = with_input(Messages[src])
    /\ M' = Messages[src]
    /\ op' = "with_input"
    /\ UNCHANGED <<src, ret>>

\* md.update(input), input being the next n bytes of the message.
Update(n) ==
    /\ Live
    /\ Len(M) + n <= Len(Messages[src])
    /\ LET input == Slice(Messages[src], Len(M), Len(M) + n)
       IN  /\ md' = update(md, input)
           /\ M' = M \o input
    /\ op' = "update"
    /\ ret' = <<>>
    /\ UNCHANGED src

\* md.to_string()
Display ==
    /\ Live
    /\ LET r == fmt(md)
       IN  /\ md' = r.self
           /\ ret' = r.out
    /\ op' = "fmt"
    /\ UNCHANGED <<M, src>>

\* md.finalize()
Finalize ==
    /\ Live
    /\ LET r == Finalized(md)
       IN  /\ md' = r
           /\ ret' = r.state
    /\ op' = "finalize"
    /\ UNCHANGED <<M, src>>

Next ==
    \/ WithInput
    \/ \E n \in ChunkLens : Update(n)
    \/ Display
    \/ Finalize

Spec == Init /\ [][Next]_vars

\* --------------------------------------------------------------- claims

\* The 16-byte blocks of m, in order: m[0..16], m[16..32], ...
BlocksOf(m) == [i \in 1..(Len(m) \div BLOCK) |-> Slice(m, BLOCK * (i - 1), BLOCK * i)]

\* The value of a lowercase hex digit.
HexValue(c) == CHOOSE v \in 0..15 : At(HexDigits, v) = c

\* The bytes a string of two hex digits per byte encodes.
ParseHex(s) ==
    [i \in 1..(Len(s) \div 2) |-> 16 * HexValue(s[2 * i - 1]) + HexValue(s[2 * i])]

\* s is 32 characters long and each is a lowercase hex digit.
IsLowerHex32(s) ==
    /\ Len(s) = 2 * BLOCK
    /\ \A i \in 1..Len(s) : \E v \in 0..15 : At(HexDigits, v) = s[i]

\* C1: the digest finalize returns after the message was fed in any number
\* of update calls equals the digest of one update call over the whole
\* input on a fresh engine, and the digest of with_input over it.
ChunkingInvariance ==
    op = "finalize" =>
        /\ ret = finalize(update(new, M))
        /\ ret = finalize(with_input(M))

\* A finalized engine whose input is a proper prefix of its message longer
\* than any one update call takes: it was fed in several calls.
ChunkingWitness ==
    /\ op = "finalize"
    /\ Len(M) > MaxChunk + 1
    /\ M # Messages[src]
    /\ Len(M) % BLOCK = 1
    /\ ret = finalize(with_input(M))

\* C2: the hex string of each message of RFC 1319, once the whole message
\* was absorbed, is the reference digest.
KnownAnswers == (op = "fmt" /\ M = Messages[src]) => ret = Expected[src]

\* The 80-digit message, absorbed and formatted.
KnownAnswersWitness ==
    /\ op = "fmt"
    /\ src = 7
    /\ M = Messages[7]
    /\ Len(md.calls) = 5
    /\ ret = Expected[7]

\* C3: count is in 0..15 when update returns: every buffer that filled up
\* was compressed within the call, and count is the length of the remainder.
CountBelowBlock ==
    op \in {"with_input", "update"} =>
        /\ md.count \in 0..(BLOCK - 1)
        /\ Len(md.calls) * BLOCK + md.count = Len(M)

\* An update that filled the buffer exactly and left count at 0.
CountBelowBlockWitness ==
    /\ op = "update"
    /\ Len(M) = 2 * BLOCK
    /\ Len(md.calls) = 2
    /\ md.count = 0

\* C4: Display leaves the instance as it was, and writes the 32-character
\* lowercase hex encoding of the digest finalize would return.
DisplayNonDestructive ==
    [][op' = "fmt" =>
        /\ md' = md
        /\ IsLowerHex32(ret')
        /\ ParseHex(ret') = finalize(md)]_vars

\* A formatted engine holding buffered bytes and compressed blocks.
DisplayWitness ==
    /\ op = "fmt"
    /\ Len(M) = BLOCK + 1
    /\ md.count = 1
    /\ IsLowerHex32(ret)
    /\ ParseHex(ret) = finalize(md)

\* C5: update with an empty slice changes no field and runs no compression
\* step.
EmptyUpdateNoOp == [][(Live /\ op' = "update" /\ M' = M) => md' = md]_vars

\* An engine whose last call was an update and that has absorbed nothing:
\* the update was given the empty slice, and the engine is as new.
EmptyUpdateWitness ==
    /\ op = "update"
    /\ M = <<>>
    /\ Messages[src] # <<>>
    /\ md = new

\* C6: no call panics: every slice given to _update is 16 bytes long and
\* every slice index is in bounds.
NoPanic ==
    /\ md.ok
    /\ \A i \in 1..Len(md.calls) : Len(md.calls[i]) = BLOCK

\* A finalized engine that has compressed five blocks of input, the padding
\* block and the checksum.
NoPanicWitness ==
    /\ op = "finalize"
    /\ Len(md.calls) = 7
    /\ md.ok

\* C7: finalize compresses the buffered bytes padded with padding_len =
\* 16 - count bytes of value padding_len, then the checksum as it stands
\* after that block, and returns the state: two compression steps.
FinalizePadding ==
    [][op' = "finalize" =>
        LET padding_len == BLOCK - md.count
            block == Slice(md.buffer, 0, md.count) \o Repeat(padding_len, padding_len)
            mid == _update(md, block)
        IN  /\ padding_len \in 1..BLOCK
            /\ md'.calls = md.calls \o <<block, mid.checksum>>
            /\ ret' = _update(mid, mid.checksum).state
            /\ md'.ok]_vars

\* A finalized engine whose buffer was empty: the padding block is sixteen
\* bytes of value 16.
FinalizePaddingWitness ==
    /\ op = "finalize"
    /\ Len(M) = BLOCK
    /\ Len(md.calls) = 3
    /\ md.calls[2] = Repeat(BLOCK, BLOCK)
    /\ md.calls[3] = Checksum(Checksum(Zero16, M), md.calls[2])
    /\ ret = md.state

\* The operations of the engine.
Operations == {"new", "with_input", "update", "fmt", "finalize"}

\* C8: whatever operation ran last, S holds 256 entries, every byte value
\* once.
SIsPermutation ==
    op \in Operations =>
        /\ Len(S) = 256
        /\ \A v \in Byte : Cardinality({i \in 1..Len(S) : S[i] = v}) = 1

\* The table after a compression step has read it.
SIsPermutationWitness ==
    /\ md.calls # <<>>
    /\ md.state # Zero16
    /\ Cardinality({S[i] : i \in 1..Len(S)}) = 256

\* C9: an update whose input does not fill the buffer runs no compression
\* step and appends the input to the buffered bytes.
PartialFill ==
    [][(/\ Live
        /\ op' \in {"with_input", "update"}
        /\ Len(M') - Len(M) < BLOCK - md.count) =>
        /\ md'.state = md.state
        /\ md'.checksum = md.checksum
        /\ md'.calls = md.calls
        /\ Slice(md'.buffer, 0, md.count) = Slice(md.buffer, 0, md.count)
        /\ Slice(md'.buffer, md.count, md.count + Len(M') - Len(M))
              = Slice(M', Len(M), Len(M'))
        /\ md'.count = md.count + Len(M') - Len(M)]_vars

\* An engine that holds 14 bytes after a block, appended by partial updates.
PartialFillWitness ==
    /\ op = "update"
    /\ Len(M) = BLOCK + 14
    /\ md.count = 14
    /\ Len(md.calls) = 1
    /\ Slice(md.buffer, 0, 14) = Slice(M, BLOCK, BLOCK + 14)

\* C10: after the update calls have absorbed M, count = |M| mod 16, the
\* buffer holds the last count bytes of M, and the compression step has run
\* on the consecutive 16-byte blocks of M, once each and in order.
Buffering ==
    op # "finalize" =>
        /\ md.count = Len(M) % BLOCK
        /\ Slice(md.buffer, 0, md.count) = Slice(M, Len(M) - md.count, Len(M))
        /\ md.calls = BlocksOf(M)

\* An engine that has absorbed 33 bytes, not all in one call.
BufferingWitness ==
    /\ op = "update"
    /\ Len(M) = 2 * BLOCK + 1
    /\ md # update(new, M)
    /\ md.count = 1
    /\ md.calls = BlocksOf(M)

====
